---- MODULE Spec2Model ----
(***************************************************************************)
(* ThreadedWinnowing (src/scanoss/threadedwinnowing.py): a caller enqueues *)
(* file paths, run() sizes and starts a pool of worker threads, each       *)
(* worker pulls paths off the input queue, fingerprints them and stores    *)
(* the result, and complete() drains the queue, stops and joins the pool.  *)
(* One coordinator instance, one run() call, any number of producers'      *)
(* queue_add calls at any time, up to MaxCompletes complete() calls.       *)
(***************************************************************************)
EXTENDS Integers, Sequences, FiniteSets, Bags, TLC

\* ---- bounds of the model ----
NumPaths == 2          \* distinct valid paths a producer may enqueue
MaxCompletes == 2      \* complete() calls checked (run(wait=True) counts)
MaxBarCalls == 1       \* update_bar calls made by the caller's own threads
MaxInstances == 2      \* coordinator instances constructed in the process

\* ---- program constant (SCANOSS_MAX_ALLOWED_THREADS, default 30) ----
MAX_ALLOWED_THREADS == 2

Paths == 1..NumPaths
Workers == 1..MAX_ALLOWED_THREADS
None == 0
Outcomes == {"wfp", "empty", "fail"}
\* nb_threads values passed to the constructor: below, at and above the maximum
RequestedCounts == 0..(MAX_ALLOWED_THREADS + 1)
\* amount values passed to update_bar by the caller: the default and an advance
Amounts == {0, 1}

VARIABLES
    inputs,            \* self.inputs: FIFO of pending paths
    unfinished_tasks,  \* Queue.unfinished_tasks of self.inputs (join() waits on it)
    output,            \* self.output: bag of stored results (the path whose wfp it is)
    nb_threads,        \* self.nb_threads
    threads,           \* len(self._threads); thread i is worker i
    errors,            \* self._errors
    stop_event,        \* self._stop_event
    stop_winnowing,    \* self._stop_winnowing
    lock,              \* self._lock: None or the worker holding it
    bar_count,         \* self._bar_count
    bar,               \* self.bar is not None
    bar_index,         \* self.bar.index, the indicator's position
    finishes,          \* number of bar.finish() calls made
    wpc,               \* position of each worker in worker_post
    file,              \* worker_post local: file
    count_read,        \* update_bar: value of _bar_count read by +=
    mpc,               \* position of the calling thread in run()/complete()
    wait,              \* run() argument
    caller,            \* who called complete(): "run" or "user"
    join_idx,          \* complete(): index of the thread being joined
    run_ret,           \* value returned by run(): "none", "true" or "false"
    calls,             \* history: one record per returned complete() call
    cur,               \* history of the complete() call in progress
    requested,         \* constructor argument nb_threads
    qsize,             \* run() local: inputs.qsize() read at its start (-1 before)
    outcomes,          \* history: per path, what wfp_for_file did on each invocation
    enq_at,            \* history: per path, when queue_add admitted it
    rejected,          \* history: a queue_add call was rejected with a warning
    start_failed,      \* history: a Thread.start() raised in run()
    bar_made,          \* history: self.bar was made by create_bar()
    bar_calls,         \* history: number of update_bar calls made by the caller
    display,           \* "not quiet and _isatty": "unread" until create_bar reads it
    instance,          \* history: number of the coordinator instance in use
    enq_inst           \* history: per path, the instance queue_add was called on

vars == <<inputs, unfinished_tasks, output, nb_threads, threads, errors,
          stop_event, stop_winnowing, lock, bar_count, bar, bar_index,
          finishes, wpc, file, count_read, mpc, wait, caller, join_idx,
          run_ret, calls, cur, requested, qsize, outcomes, enq_at, rejected,
          start_failed, bar_made, bar_calls, display, instance, enq_inst>>

queue_vars == <<inputs, unfinished_tasks>>
tracker_vars == <<bar_made, bar_calls, display>>
bar_vars == <<lock, bar_count, bar, bar_index, count_read, tracker_vars>>
main_vars == <<mpc, wait, caller, join_idx, run_ret, calls, cur, qsize,
               nb_threads, threads, start_failed, finishes>>
flag_vars == <<errors, stop_event, stop_winnowing>>
producer_vars == <<enq_at, rejected, instance, enq_inst>>

\* ---- helpers ----

\* mutant: the constructor keeps the requested count as it is
ClampThreadsMissing(n) == n

\* __init__, lines 76-78: the requested thread count is clamped
ClampThreads(n) == IF n > MAX_ALLOWED_THREADS THEN MAX_ALLOWED_THREADS ELSE n

\* run(), lines 181-184: the pool is shrunk to the queue size
ShrinkThreads(n, q) == IF q < n THEN q ELSE n

\* mutant: the drain wait only looks at the queue being empty
JoinReturnsOnEmptyQueue == inputs = <<>>

\* Queue.join() (line 203) returns when every put() was matched by a task_done()
JoinReturns == unfinished_tasks = 0

\* mutant: the dequeue leaves the head in the queue
QueueAfterPeek(q) == q

\* Queue.get() (line 225) removes the head of the queue
QueueAfterGet(q) == Tail(q)

\* the drain wait of the first complete() call has returned
Drained == stop_event \/ mpc = "c_stop"

Admitted == {p \in Paths : enq_at[p] # "no"}

Phase == IF mpc = "idle" THEN "pre" ELSE IF Drained THEN "late" ELSE "live"

Init ==
    /\ inputs = <<>>
    /\ unfinished_tasks = 0
    /\ output = EmptyBag
    /\ requested \in RequestedCounts
    /\ nb_threads = ClampThreads(requested)
    /\ threads = 0
    /\ errors = FALSE
    /\ stop_event = FALSE
    /\ stop_winnowing = FALSE
    /\ lock = None
    /\ bar_count = 0
    /\ bar = FALSE
    /\ bar_index = 0
    /\ finishes = 0
    /\ wpc = [w \in Workers |-> "unstarted"]
    /\ file = [w \in Workers |-> None]
    /\ count_read = [w \in Workers |-> 0]
    /\ mpc = "idle"
    /\ wait = FALSE
    /\ caller = "user"
    /\ join_idx = 0
    /\ run_ret = "none"
    /\ calls = <<>>
    /\ cur = [timed_out |-> FALSE, joins |-> 0]
    /\ qsize = -1
    /\ outcomes = [p \in Paths |-> <<>>]
    /\ enq_at = [p \in Paths |-> "no"]
    /\ rejected = FALSE
    /\ start_failed = FALSE
    /\ bar_made = FALSE
    /\ bar_calls = 0
    /\ display = "unread"
    /\ instance = 1
    /\ enq_inst = [p \in Paths |-> 0]

\* ---- producer ----

\* queue_add(file) with a non-empty path, lines 153-156
QueueAdd ==
    /\ \E p \in Paths :
        /\ enq_at[p] = "no"
        /\ \A q \in Paths : q < p => enq_at[q] # "no"
        /\ inputs' = Append(inputs, p)
        /\ unfinished_tasks' = unfinished_tasks + 1
        /\ enq_at' = [enq_at EXCEPT ![p] = Phase]
        /\ enq_inst' = [enq_inst EXCEPT ![p] = instance]
    /\ UNCHANGED <<output, bar_vars, main_vars, flag_vars, wpc, file,
                   requested, outcomes, rejected, instance>>

\* mutant: the empty path is put on the queue after the warning
QueueAddEmptyEnqueues ==
    /\ rejected' = TRUE
    /\ inputs' = Append(inputs, None)
    /\ unfinished_tasks' = unfinished_tasks + 1
    /\ UNCHANGED <<output, bar_vars, main_vars, flag_vars, wpc, file,
                   requested, outcomes, enq_at, instance, enq_inst>>

\* queue_add(None) or queue_add(''), lines 153-154: a warning, nothing else
QueueAddEmpty ==
    /\ rejected' = TRUE
    /\ UNCHANGED <<queue_vars, output, bar_vars, main_vars, flag_vars, wpc,
                   file, requested, outcomes, enq_at, instance, enq_inst>>

\* set_bar(bar), lines 89-94
SetBar ==
    /\ mpc = "idle"
    /\ ~bar
    /\ bar' = TRUE
    /\ bar_index' = 0
    /\ UNCHANGED <<queue_vars, output, lock, bar_count, count_read, main_vars,
                   flag_vars, wpc, file, requested, outcomes, producer_vars,
                   tracker_vars>>

\* ---- run() ----

\* run(wait), lines 180-186
RunSize ==
    /\ mpc = "idle"
    /\ \E wt \in BOOLEAN : wait' = wt
    /\ qsize' = Len(inputs)
    /\ nb_threads' = ShrinkThreads(nb_threads, Len(inputs))
    /\ mpc' = IF nb_threads' > 0 THEN "run_spawn" ELSE "run_wait"
    /\ UNCHANGED <<queue_vars, output, bar_vars, flag_vars, wpc, file, caller,
                   join_idx, run_ret, calls, cur, threads, start_failed,
                   finishes, requested, outcomes, producer_vars>>

\* run(), lines 188-191: one iteration of the loop, the thread starts
RunSpawn ==
    /\ mpc = "run_spawn"
    /\ threads' = threads + 1
    /\ wpc' = [wpc EXCEPT ![threads + 1] = "loop"]
    /\ mpc' = IF threads' < nb_threads THEN "run_spawn" ELSE "run_wait"
    /\ UNCHANGED <<queue_vars, output, bar_vars, flag_vars, file, wait, caller,
                   join_idx, run_ret, calls, cur, qsize, nb_threads,
                   start_failed, finishes, requested, outcomes, producer_vars>>

\* run(), lines 190-194: the thread is appended, start() raises, the loop ends
RunSpawnFail ==
    /\ mpc = "run_spawn"
    /\ threads' = threads + 1
    /\ errors' = TRUE
    /\ start_failed' = TRUE
    /\ mpc' = "run_wait"
    /\ UNCHANGED <<queue_vars, output, bar_vars, stop_event, stop_winnowing,
                   wpc, file, wait, caller, join_idx, run_ret, calls, cur,
                   qsize, nb_threads, finishes, requested, outcomes,
                   producer_vars>>

\* run(), lines 195-196
RunWait ==
    /\ mpc = "run_wait"
    /\ IF wait
         THEN mpc' = "c_join" /\ caller' = "run"
         ELSE mpc' = "run_return" /\ caller' = caller
    /\ UNCHANGED <<queue_vars, output, bar_vars, flag_vars, wpc, file, wait,
                   join_idx, run_ret, calls, cur, qsize, nb_threads, threads,
                   start_failed, finishes, requested, outcomes, producer_vars>>

\* run(), line 197
RunReturn ==
    /\ mpc = "run_return"
    /\ run_ret' = IF errors THEN "false" ELSE "true"
    /\ mpc' = "ready"
    /\ UNCHANGED <<queue_vars, output, bar_vars, flag_vars, wpc, file, wait,
                   caller, join_idx, calls, cur, qsize, nb_threads, threads,
                   start_failed, finishes, requested, outcomes, producer_vars>>

\* ---- complete() ----

\* mutant: a new complete() call re-arms the stop event
CompleteCallClearsStop ==
    /\ mpc = "ready"
    /\ Len(calls) < MaxCompletes
    /\ mpc' = "c_join"
    /\ caller' = "user"
    /\ stop_event' = FALSE
    /\ UNCHANGED <<queue_vars, output, bar_vars, errors, stop_winnowing, wpc,
                   file, wait, join_idx, run_ret, calls, cur, qsize,
                   nb_threads, threads, start_failed, finishes, requested,
                   outcomes, producer_vars>>

\* the caller calls complete(), line 199
CompleteCall ==
    /\ mpc = "ready"
    /\ Len(calls) < MaxCompletes
    /\ mpc' = "c_join"
    /\ caller' = "user"
    /\ UNCHANGED <<queue_vars, output, bar_vars, flag_vars, wpc, file, wait,
                   join_idx, run_ret, calls, cur, qsize, nb_threads, threads,
                   start_failed, finishes, requested, outcomes, producer_vars>>

\* complete(), line 203: inputs.join() returns
CompleteJoin ==
    /\ mpc = "c_join"
    /\ JoinReturns
    /\ mpc' = "c_stop"
    /\ UNCHANGED <<queue_vars, output, bar_vars, flag_vars, wpc, file, wait,
                   caller, join_idx, run_ret, calls, cur, qsize, nb_threads,
                   threads, start_failed, finishes, requested, outcomes,
                   producer_vars>>

\* complete(), line 204
CompleteStop ==
    /\ mpc = "c_stop"
    /\ stop_event' = TRUE
    /\ join_idx' = 1
    /\ mpc' = IF threads > 0 THEN "c_threads" ELSE "c_finish"
    /\ UNCHANGED <<queue_vars, output, bar_vars, errors, stop_winnowing, wpc,
                   file, wait, caller, run_ret, calls, cur, qsize, nb_threads,
                   threads, start_failed, finishes, requested, outcomes,
                   producer_vars>>

\* mutant: the thread is taken as joined whether or not it has ended
CompleteJoinThreadNoWait ==
    /\ mpc = "c_threads"
    /\ wpc[join_idx] # "unstarted"
    /\ cur' = [cur EXCEPT !.joins = @ + 1]
    /\ join_idx' = join_idx + 1
    /\ mpc' = IF join_idx < threads THEN "c_threads" ELSE "c_finish"
    /\ UNCHANGED <<queue_vars, output, bar_vars, flag_vars, wpc, file, wait,
                   caller, run_ret, calls, qsize, nb_threads, threads,
                   start_failed, finishes, requested, outcomes, producer_vars>>

\* complete(), lines 206-207: t.join(timeout=5) returns, the thread has ended
CompleteJoinThread ==
    /\ mpc = "c_threads"
    /\ wpc[join_idx] = "done"
    /\ cur' = [cur EXCEPT !.joins = @ + 1]
    /\ join_idx' = join_idx + 1
    /\ mpc' = IF join_idx < threads THEN "c_threads" ELSE "c_finish"
    /\ UNCHANGED <<queue_vars, output, bar_vars, flag_vars, wpc, file, wait,
                   caller, run_ret, calls, qsize, nb_threads, threads,
                   start_failed, finishes, requested, outcomes, producer_vars>>

\* complete(), lines 206-207: t.join(timeout=5) returns on its timeout, the
\* thread is still alive and is left running
CompleteJoinTimeout ==
    /\ mpc = "c_threads"
    /\ wpc[join_idx] \notin {"done", "unstarted"}
    /\ cur' = [timed_out |-> TRUE, joins |-> cur.joins + 1]
    /\ join_idx' = join_idx + 1
    /\ mpc' = IF join_idx < threads THEN "c_threads" ELSE "c_finish"
    /\ UNCHANGED <<queue_vars, output, bar_vars, flag_vars, wpc, file, wait,
                   caller, run_ret, calls, qsize, nb_threads, threads,
                   start_failed, finishes, requested, outcomes, producer_vars>>

\* complete(), lines 207-210: joining a thread that never started raises
\* RuntimeError, the loop ends
CompleteJoinRaise ==
    /\ mpc = "c_threads"
    /\ wpc[join_idx] = "unstarted"
    /\ cur' = [cur EXCEPT !.joins = @ + 1]
    /\ errors' = TRUE
    /\ mpc' = "c_finish"
    /\ UNCHANGED <<queue_vars, output, bar_vars, stop_event, stop_winnowing,
                   wpc, file, wait, caller, join_idx, run_ret, calls, qsize,
                   nb_threads, threads, start_failed, finishes, requested,
                   outcomes, producer_vars>>

\* mutant: the status is computed from the abort flag, not the error flag
CompleteFinishAbortFlag ==
    /\ mpc = "c_finish"
    /\ finishes' = IF bar THEN finishes + 1 ELSE finishes
    /\ calls' = Append(calls, [ret |-> ~stop_winnowing,
                               timed_out |-> cur.timed_out,
                               joins |-> cur.joins, finished |-> bar])
    /\ cur' = [timed_out |-> FALSE, joins |-> 0]
    /\ join_idx' = 0
    /\ mpc' = IF caller = "run" THEN "run_return" ELSE "ready"
    /\ UNCHANGED <<queue_vars, output, bar_vars, flag_vars, wpc, file, wait,
                   caller, run_ret, qsize, nb_threads, threads,
                   start_failed, requested, outcomes, producer_vars>>

\* complete(), lines 211-212 with complete_bar(), lines 85-87
CompleteFinish ==
    /\ mpc = "c_finish"
    /\ finishes' = IF bar THEN finishes + 1 ELSE finishes
    /\ calls' = Append(calls, [ret |-> ~errors, timed_out |-> cur.timed_out,
                               joins |-> cur.joins, finished |-> bar])
    /\ cur' = [timed_out |-> FALSE, joins |-> 0]
    /\ join_idx' = 0
    /\ mpc' = IF caller = "run" THEN "run_return" ELSE "ready"
    /\ UNCHANGED <<queue_vars, output, bar_vars, flag_vars, wpc, file, wait,
                   caller, run_ret, qsize, nb_threads, threads,
                   start_failed, requested, outcomes, producer_vars>>

\* ---- worker_post() ----

\* line 221-222: test of the stop event at the top of the loop
WorkerLoop(w) ==
    /\ wpc[w] = "loop"
    /\ IF stop_event
         THEN wpc' = [wpc EXCEPT ![w] = "done"]
         ELSE wpc' = [wpc EXCEPT ![w] = "check"]
    /\ file' = [file EXCEPT ![w] = None]
    /\ UNCHANGED <<queue_vars, output, bar_vars, main_vars, flag_vars,
                   requested, outcomes, producer_vars>>

\* lines 223, 243-244: inputs.empty(); on an empty queue time.sleep(1) and
\* back to the top of the loop
WorkerCheck(w) ==
    /\ wpc[w] = "check"
    /\ wpc' = [wpc EXCEPT ![w] = IF inputs # <<>> THEN "get" ELSE "loop"]
    /\ UNCHANGED <<queue_vars, output, bar_vars, main_vars, flag_vars, file,
                   requested, outcomes, producer_vars>>

\* line 225: inputs.get(timeout=5) returns the head of the queue
WorkerGet(w) ==
    /\ wpc[w] = "get"
    /\ inputs # <<>>
    /\ file' = [file EXCEPT ![w] = Head(inputs)]
    /\ inputs' = QueueAfterGet(inputs)
    /\ wpc' = [wpc EXCEPT ![w] = "winnow"]
    /\ UNCHANGED <<unfinished_tasks, output, bar_vars, main_vars, flag_vars,
                   requested, outcomes, producer_vars>>

\* lines 225, 235-236: inputs.get(timeout=5) raises queue.Empty
WorkerGetEmpty(w) ==
    /\ wpc[w] = "get"
    /\ inputs = <<>>
    /\ wpc' = [wpc EXCEPT ![w] = "loop"]
    /\ UNCHANGED <<queue_vars, output, bar_vars, main_vars, flag_vars, file,
                   requested, outcomes, producer_vars>>

\* mutant: an empty fingerprint skips task_done()
WorkerWinnowSkipsDone(w) ==
    /\ wpc[w] = "winnow"
    /\ \E o \in Outcomes :
        /\ outcomes' = [outcomes EXCEPT ![file[w]] = Append(@, o)]
        /\ wpc' = [wpc EXCEPT ![w] = CASE o = "wfp" -> "put"
                                       [] o = "empty" -> "loop"
                                       [] o = "fail" -> "except"]
    /\ UNCHANGED <<queue_vars, output, bar_vars, main_vars, flag_vars, file,
                   requested, producer_vars>>

\* mutant: an empty fingerprint is stored like a payload
WorkerWinnowStoresEmpty(w) ==
    /\ wpc[w] = "winnow"
    /\ \E o \in Outcomes :
        /\ outcomes' = [outcomes EXCEPT ![file[w]] = Append(@, o)]
        /\ wpc' = [wpc EXCEPT ![w] = CASE o = "wfp" -> "put"
                                       [] o = "empty" -> "put"
                                       [] o = "fail" -> "except"]
    /\ UNCHANGED <<queue_vars, output, bar_vars, main_vars, flag_vars, file,
                   requested, producer_vars>>

\* lines 229-230: strip_path and wfp_for_file return a payload, return
\* nothing, or raise
WorkerWinnow(w) ==
    /\ wpc[w] = "winnow"
    /\ \E o \in Outcomes :
        /\ outcomes' = [outcomes EXCEPT ![file[w]] = Append(@, o)]
        /\ wpc' = [wpc EXCEPT ![w] = CASE o = "wfp" -> "put"
                                       [] o = "empty" -> "task_done"
                                       [] o = "fail" -> "except"]
    /\ UNCHANGED <<queue_vars, output, bar_vars, main_vars, flag_vars, file,
                   requested, producer_vars>>

\* line 231: output.put(wfps)
WorkerPut(w) ==
    /\ wpc[w] = "put"
    /\ output' = output (+) SetToBag({file[w]})
    /\ wpc' = [wpc EXCEPT ![w] = "bar_acquire"]
    /\ UNCHANGED <<queue_vars, bar_vars, main_vars, flag_vars, file,
                   requested, outcomes, producer_vars>>

\* mutant: the counter is updated without waiting for the lock
UpdateBarAcquireUnlocked(w) ==
    /\ wpc[w] = "bar_acquire"
    /\ lock' = w
    /\ wpc' = [wpc EXCEPT ![w] = "bar_next"]
    /\ UNCHANGED <<queue_vars, output, bar_count, bar, bar_index, count_read,
                   main_vars, flag_vars, file, requested, outcomes,
                   producer_vars, tracker_vars>>

\* update_bar(1), line 104: self._lock.acquire()
UpdateBarAcquire(w) ==
    /\ wpc[w] = "bar_acquire"
    /\ lock = None
    /\ lock' = w
    /\ wpc' = [wpc EXCEPT ![w] = "bar_next"]
    /\ UNCHANGED <<queue_vars, output, bar_count, bar, bar_index, count_read,
                   main_vars, flag_vars, file, requested, outcomes,
                   producer_vars, tracker_vars>>

\* update_bar(1), lines 106-110: bar.next(amount) when a bar exists, then
\* the read of _bar_count by +=
UpdateBarNext(w) ==
    /\ wpc[w] = "bar_next"
    /\ bar_index' = IF bar THEN bar_index + 1 ELSE bar_index
    /\ count_read' = [count_read EXCEPT ![w] = bar_count]
    /\ wpc' = [wpc EXCEPT ![w] = "bar_store"]
    /\ UNCHANGED <<queue_vars, output, lock, bar_count, bar, main_vars,
                   flag_vars, file, requested, outcomes, producer_vars,
                   tracker_vars>>

\* update_bar(1), line 110: the write of _bar_count by +=
UpdateBarStore(w) ==
    /\ wpc[w] = "bar_store"
    /\ bar_count' = count_read[w] + 1
    /\ count_read' = [count_read EXCEPT ![w] = 0]
    /\ wpc' = [wpc EXCEPT ![w] = "bar_release"]
    /\ UNCHANGED <<queue_vars, output, lock, bar, bar_index,
                   main_vars, flag_vars, file, requested, outcomes,
                   producer_vars, tracker_vars>>

\* update_bar(1), line 112: self._lock.release()
UpdateBarRelease(w) ==
    /\ wpc[w] = "bar_release"
    /\ lock' = None
    /\ wpc' = [wpc EXCEPT ![w] = "task_done"]
    /\ UNCHANGED <<queue_vars, output, bar_count, bar, bar_index, count_read,
                   main_vars, flag_vars, file, requested, outcomes,
                   producer_vars, tracker_vars>>

\* line 233: inputs.task_done()
WorkerTaskDone(w) ==
    /\ wpc[w] = "task_done"
    /\ unfinished_tasks' = unfinished_tasks - 1
    /\ wpc' = [wpc EXCEPT ![w] = "loop"]
    /\ UNCHANGED <<inputs, output, bar_vars, main_vars, flag_vars, file,
                   requested, outcomes, producer_vars>>

\* mutant: the exception handler logs the failure but does not flag it
WorkerExceptUnflagged(w) ==
    /\ wpc[w] = "except"
    /\ wpc' = [wpc EXCEPT ![w] = "except_done"]
    /\ UNCHANGED <<queue_vars, output, bar_vars, main_vars, flag_vars, file,
                   requested, outcomes, producer_vars>>

\* lines 237-239: the exception handler sets the error flag
WorkerExcept(w) ==
    /\ wpc[w] = "except"
    /\ errors' = TRUE
    /\ wpc' = [wpc EXCEPT ![w] = "except_done"]
    /\ UNCHANGED <<queue_vars, output, bar_vars, main_vars, stop_event,
                   stop_winnowing, file, requested, outcomes, producer_vars>>

\* lines 240-241: if file: inputs.task_done()
WorkerExceptTaskDone(w) ==
    /\ wpc[w] = "except_done"
    /\ unfinished_tasks' = IF file[w] # None THEN unfinished_tasks - 1
                                             ELSE unfinished_tasks
    /\ wpc' = [wpc EXCEPT ![w] = "except_abort"]
    /\ UNCHANGED <<inputs, output, bar_vars, main_vars, flag_vars, file,
                   requested, outcomes, producer_vars>>

\* mutant: the worker ends after a failure ("Aborting current thread")
WorkerExceptAbortExits(w) ==
    /\ wpc[w] = "except_abort"
    /\ stop_winnowing' = TRUE
    /\ wpc' = [wpc EXCEPT ![w] = "done"]
    /\ UNCHANGED <<queue_vars, output, bar_vars, main_vars, errors,
                   stop_event, file, requested, outcomes, producer_vars>>

\* mutant: the handler does not set the abort event
WorkerExceptAbortUnset(w) ==
    /\ wpc[w] = "except_abort"
    /\ wpc' = [wpc EXCEPT ![w] = "loop"]
    /\ UNCHANGED <<queue_vars, output, bar_vars, main_vars, flag_vars, file,
                   requested, outcomes, producer_vars>>

\* line 242: self._stop_winnowing.set(), then back to the top of the loop
WorkerExceptAbort(w) ==
    /\ wpc[w] = "except_abort"
    /\ stop_winnowing' = TRUE
    /\ wpc' = [wpc EXCEPT ![w] = "loop"]
    /\ UNCHANGED <<queue_vars, output, bar_vars, main_vars, errors,
                   stop_event, file, requested, outcomes, producer_vars>>

Next ==
    \/ QueueAdd
    \/ QueueAddEmpty
    \/ SetBar
    \/ RunSize
    \/ RunSpawn
    \/ RunSpawnFail
    \/ RunWait
    \/ RunReturn
    \/ CompleteCall
    \/ CompleteJoin
    \/ CompleteStop
    \/ CompleteJoinThread
    \/ CompleteJoinTimeout
    \/ CompleteJoinRaise
    \/ CompleteFinish
    \/ \E w \in Workers : WorkerLoop(w)
    \/ \E w \in Workers : WorkerCheck(w)
    \/ \E w \in Workers : WorkerGet(w)
    \/ \E w \in Workers : WorkerGetEmpty(w)
    \/ \E w \in Workers : WorkerWinnow(w)
    \/ \E w \in Workers : WorkerPut(w)
    \/ \E w \in Workers : UpdateBarAcquire(w)
    \/ \E w \in Workers : UpdateBarNext(w)
    \/ \E w \in Workers : UpdateBarStore(w)
    \/ \E w \in Workers : UpdateBarRelease(w)
    \/ \E w \in Workers : WorkerTaskDone(w)
    \/ \E w \in Workers : WorkerExcept(w)
    \/ \E w \in Workers : WorkerExceptTaskDone(w)
    \/ \E w \in Workers : WorkerExceptAbort(w)

Spec == Init /\ [][Next]_vars

\* ---- the caller's own update_bar calls ----

\* update_bar(amount, create, file_count) called outside the workers, lines
\* 103-112, with create_bar(), lines 80-83; the whole body runs with the lock
\* held. create_bar makes the bar when "not quiet and _isatty" and positions
\* it at the counter as it is BEFORE line 110 adds amount to it.
CallerUpdateBar ==
    /\ bar_calls < MaxBarCalls
    /\ lock = None
    /\ bar_calls' = bar_calls + 1
    /\ \E amount \in Amounts, create \in BOOLEAN, d \in {"on", "off"} :
        LET creating == create /\ ~bar
            shown == IF creating /\ display = "unread" THEN d ELSE display
            makes == creating /\ shown = "on"
        IN  /\ display' = shown
            /\ bar' = (bar \/ makes)
            /\ bar_made' = (bar_made \/ makes)
            /\ bar_index' = IF makes THEN bar_count
                            ELSE IF ~creating /\ bar THEN bar_index + amount
                            ELSE bar_index
            /\ bar_count' = bar_count + amount
    /\ UNCHANGED <<queue_vars, output, lock, count_read, main_vars, flag_vars,
                   wpc, file, requested, outcomes, producer_vars>>

NextBar == Next \/ CallerUpdateBar

SpecBar == Init /\ [][NextBar]_vars

\* ---- a second coordinator in the same process ----

\* ThreadedWinnowing(...) constructed again once the workers of the previous
\* instance are gone, lines 50-78: __init__ sets the instance fields, while
\* inputs and output are class attributes (lines 50-51) that __init__ never
\* assigns, so the new instance has the two queues of the previous one
NewInstance ==
    /\ instance < MaxInstances
    /\ mpc \in {"idle", "ready"}
    /\ \A w \in Workers : wpc[w] \in {"unstarted", "done"}
    /\ instance' = instance + 1
    /\ \E n \in RequestedCounts :
        /\ requested' = n
        /\ nb_threads' = ClampThreads(n)
    /\ threads' = 0
    /\ errors' = FALSE
    /\ stop_event' = FALSE
    /\ stop_winnowing' = FALSE
    /\ lock' = None
    /\ bar_count' = 0
    /\ bar' = FALSE
    /\ bar_index' = 0
    /\ bar_made' = FALSE
    /\ display' = "unread"
    /\ finishes' = 0
    /\ wpc' = [w \in Workers |-> "unstarted"]
    /\ file' = [w \in Workers |-> None]
    /\ count_read' = [w \in Workers |-> 0]
    /\ mpc' = "idle"
    /\ wait' = FALSE
    /\ caller' = "user"
    /\ join_idx' = 0
    /\ run_ret' = "none"
    /\ calls' = <<>>
    /\ cur' = [timed_out |-> FALSE, joins |-> 0]
    /\ qsize' = -1
    /\ start_failed' = FALSE
    /\ UNCHANGED <<inputs, unfinished_tasks, output, outcomes, enq_at,
                   rejected, enq_inst, bar_calls>>

NextInstances == Next \/ NewInstance

SpecInstances == Init /\ [][NextInstances]_vars

\* the steps of the caller's thread inside run() and complete()
MainStep ==
    \/ RunSize
    \/ RunSpawn
    \/ RunSpawnFail
    \/ RunWait
    \/ RunReturn
    \/ CompleteJoin
    \/ CompleteStop
    \/ CompleteJoinThread
    \/ CompleteJoinTimeout
    \/ CompleteJoinRaise
    \/ CompleteFinish

\* the steps of one worker thread in worker_post()
WorkerStep(w) ==
    \/ WorkerLoop(w)
    \/ WorkerCheck(w)
    \/ WorkerGet(w)
    \/ WorkerGetEmpty(w)
    \/ WorkerWinnow(w)
    \/ WorkerPut(w)
    \/ UpdateBarAcquire(w)
    \/ UpdateBarNext(w)
    \/ UpdateBarStore(w)
    \/ UpdateBarRelease(w)
    \/ WorkerTaskDone(w)
    \/ WorkerExcept(w)
    \/ WorkerExceptTaskDone(w)
    \/ WorkerExceptAbort(w)

\* fair scheduling: a thread that can take a step eventually takes one, and
\* no fingerprint invocation hangs (WorkerWinnow is a worker step)
FairSpec ==
    /\ Init /\ [][Next]_vars
    /\ WF_vars(MainStep)
    /\ \A w \in Workers : WF_vars(WorkerStep(w))

TypeOK ==
    /\ inputs \in Seq(Paths)
    /\ unfinished_tasks \in Int
    /\ IsABag(output) /\ BagToSet(output) \subseteq Paths
    /\ nb_threads \in 0..MAX_ALLOWED_THREADS
    /\ threads \in 0..MAX_ALLOWED_THREADS
    /\ errors \in BOOLEAN /\ stop_event \in BOOLEAN /\ stop_winnowing \in BOOLEAN
    /\ lock \in {None} \cup Workers
    /\ bar_count \in Nat /\ bar \in BOOLEAN /\ bar_index \in Nat
    /\ finishes \in 0..MaxCompletes
    /\ file \in [Workers -> {None} \cup Paths]
    /\ Len(calls) <= MaxCompletes
    /\ requested \in RequestedCounts
    /\ rejected \in BOOLEAN
    /\ bar_made \in BOOLEAN /\ bar_calls \in 0..MaxBarCalls
    /\ display \in {"unread", "on", "off"}
    /\ instance \in 1..MaxInstances
    /\ enq_inst \in [Paths -> 0..MaxInstances]

\* ---- notions the properties use ----

Completed == Len(calls) >= 1

\* paths admitted before run() was called
PreRun == {p \in Paths : enq_at[p] = "pre"}

\* paths admitted before the first drain wait returned
Accounted == {p \in Paths : enq_at[p] \in {"pre", "live"}}

Late == {p \in Paths : enq_at[p] = "late"}

Stored(p) == BagIn(p, output)

HadOutcome(p, o) == \E i \in DOMAIN outcomes[p] : outcomes[p][i] = o

\* the worker has dequeued a path and not yet called task_done() for it
Holding(w) == wpc[w] \in {"winnow", "put", "bar_acquire", "bar_next",
                          "bar_store", "bar_release", "task_done", "except",
                          "except_done"}

\* the worker is inside update_bar and has not yet written the counter
BeforeStore(w) == wpc[w] \in {"bar_acquire", "bar_next", "bar_store"}

InUpdateBar(w) == wpc[w] \in {"bar_acquire", "bar_next", "bar_store", "bar_release"}

Started == {w \in Workers : wpc[w] # "unstarted"}

Min2(a, b) == IF a < b THEN a ELSE b

\* an error flag was set by thread startup or by a worker's exception handler
ErrorWasSet ==
    \/ start_failed
    \/ \E p \in Paths : /\ HadOutcome(p, "fail")
                        /\ ~ \E w \in Workers : wpc[w] = "except" /\ file[w] = p

\* ---- C1 ----

\* C1 as stated: once complete() has returned, every path enqueued before
\* run() has a result in output or failed with the error flag set.
C1_StoredOrFailed ==
    Completed =>
        \A p \in PreRun : Stored(p) \/ (HadOutcome(p, "fail") /\ errors)

\* C1 amended: once complete() has returned, every path enqueued before run()
\* was fingerprinted, and it has a result in output, or it failed with the
\* error flag set, or its fingerprint was empty and nothing was stored for it.
C1_StoredFailedOrEmpty ==
    Completed =>
        \A p \in PreRun :
            \/ HadOutcome(p, "wfp") /\ Stored(p)
            \/ HadOutcome(p, "fail") /\ errors
            \/ HadOutcome(p, "empty") /\ ~Stored(p)

C1_Witness ==
    /\ Completed
    /\ PreRun = Paths
    /\ \E p, q \in PreRun : outcomes[p] = <<"empty">> /\ Stored(q)

\* ---- C2 ----

\* C2 as stated: the drain wait returns, and the stop event is set, only in
\* a state where the outstanding-work counter is zero.
C2_StopOnlyWhenDrained ==
    [][/\ (mpc = "c_join" /\ mpc' = "c_stop") => unfinished_tasks = 0
       /\ (~stop_event /\ stop_event') => unfinished_tasks = 0]_vars

\* C2 amended: the drain wait returns only in a state where the counter is
\* zero, nothing is queued and no worker holds a path; the stop event is set
\* only after the drain wait returned, and the counter is then zero unless a
\* queue_add was admitted after the drain wait returned.
C2_DrainThenStop ==
    [][/\ (mpc = "c_join" /\ mpc' = "c_stop") =>
            /\ unfinished_tasks = 0
            /\ inputs = <<>>
            /\ \A w \in Workers : ~Holding(w)
       /\ (~stop_event /\ stop_event') =>
            /\ mpc = "c_stop"
            /\ Late = {} => /\ unfinished_tasks = 0
                            /\ inputs = <<>>
                            /\ \A w \in Workers : ~Holding(w)]_vars

C2_Witness ==
    /\ stop_event
    /\ \E p \in Paths : enq_at[p] = "live" /\ outcomes[p] # <<>>
    /\ \E p \in Paths : enq_at[p] = "pre"

\* ---- C3 ----

\* C3 as stated: every path is fingerprinted at most once and stored at most
\* once; when every fingerprint is non-empty, after complete() every path
\* admitted is stored exactly once and every status returned is true.
C3_AllStoredAndSuccess ==
    /\ \A p \in Paths : Len(outcomes[p]) <= 1 /\ CopiesIn(p, output) <= 1
    /\ (Completed /\ \A p \in Paths : ~HadOutcome(p, "empty") /\ ~HadOutcome(p, "fail")) =>
            /\ \A p \in Accounted : CopiesIn(p, output) = 1
            /\ Late = {} => BagCardinality(output) = Cardinality(Admitted)
            /\ \A i \in DOMAIN calls : calls[i].ret
            /\ run_ret \in {"none", "true"}

\* C3 amended: the same, the status being true provided no Thread.start()
\* failed in run().
C3_AllStoredAndSuccessIfStarted ==
    /\ \A p \in Paths : Len(outcomes[p]) <= 1 /\ CopiesIn(p, output) <= 1
    /\ (Completed /\ \A p \in Paths : ~HadOutcome(p, "empty") /\ ~HadOutcome(p, "fail")) =>
            /\ \A p \in Accounted : CopiesIn(p, output) = 1
            /\ Late = {} => BagCardinality(output) = Cardinality(Admitted)
            /\ ~start_failed => /\ \A i \in DOMAIN calls : calls[i].ret
                                /\ run_ret \in {"none", "true"}

C3_Witness ==
    /\ Completed
    /\ Accounted = Paths
    /\ threads = MAX_ALLOWED_THREADS
    /\ ~start_failed
    /\ \A p \in Paths : outcomes[p] = <<"wfp">>
    /\ BagCardinality(output) = NumPaths
    /\ calls[1].ret

\* ---- C4 ----

FailedAccounted == {p \in Accounted : HadOutcome(p, "fail")}

C5_StatusIsErrorFlag ==
    /\ [][errors => errors']_vars
    /\ [][Len(calls') = Len(calls) + 1 =>
            /\ calls'[Len(calls')].ret <=> ~ErrorWasSet
            /\ FailedAccounted # {} => ~calls'[Len(calls')].ret]_vars

C5_Witness ==
    /\ Len(calls) = 2
    /\ ~start_failed
    /\ FailedAccounted # {}
    /\ ~calls[1].ret

\* ---- C6 ----

\* C6 as stated: a second complete() call joins nothing, finishes nothing
\* and returns the status of the first call.
C6_SecondCallNoOp ==
    Len(calls) >= 2 =>
        /\ calls[2].ret = calls[1].ret
        /\ calls[2].joins = 0
        /\ ~calls[2].finished

\* ---- C7 ----

\* C7: nb_threads never exceeds min(requested, MAX_ALLOWED_THREADS); once
\* run() has read the queue size, nb_threads, the threads created and the
\* workers started never exceed min(requested, MAX_ALLOWED_THREADS, queue
\* size at the start of run()), and nb_threads no longer changes.
C7_PoolSize ==
    /\ [](/\ nb_threads <= Min2(requested, MAX_ALLOWED_THREADS)
          /\ qsize = -1 => Started = {} /\ threads = 0
          /\ qsize # -1 =>
                LET limit == Min2(Min2(requested, MAX_ALLOWED_THREADS), qsize)
                IN  /\ nb_threads <= limit
                    /\ threads <= limit
                    /\ Cardinality(Started) <= limit)
    /\ [][mpc # "idle" => nb_threads' = nb_threads]_vars

C7_Witness ==
    /\ requested > MAX_ALLOWED_THREADS
    /\ qsize >= MAX_ALLOWED_THREADS
    /\ Cardinality(Started) = MAX_ALLOWED_THREADS

\* ---- C8 ----

\* C8: the counter equals the number of update_bar(1) calls issued (one per
\* stored result) less the calls that have not written it yet; so once every
\* call has returned the counter has grown by exactly the number of calls.
C8_NoLostUpdate ==
    /\ bar_count = BagCardinality(output)
                     - Cardinality({w \in Workers : BeforeStore(w)})
    /\ (\A w \in Workers : ~InUpdateBar(w)) => bar_count = BagCardinality(output)

C8_Witness ==
    /\ bar_count = 2
    /\ \A w \in Workers : ~InUpdateBar(w)
    /\ threads = 2

\* ---- C9 ----

\* C9: the outstanding-work counter equals the number of queued paths plus
\* the number of workers holding a dequeued path not yet marked done, and is
\* never negative.
C9_OutstandingCounter ==
    /\ unfinished_tasks = Len(inputs) + Cardinality({w \in Workers : Holding(w)})
    /\ unfinished_tasks >= 0

C9_Witness ==
    /\ unfinished_tasks = 0
    /\ Admitted = Paths
    /\ \E p, q \in Paths : outcomes[p] = <<"empty">> /\ outcomes[q] = <<"fail">>
    /\ \A w \in Workers : ~Holding(w) /\ wpc[w] # "except_abort"

\* ---- C10 ----

\* C10 as stated: a complete() call in which a join timed out returns false.
C10_TimeoutIsError ==
    \A i \in DOMAIN calls : calls[i].timed_out => ~calls[i].ret

\* ---- C11 ----

\* a complete() call returns in this step
CompleteReturns == Len(calls') = Len(calls) + 1

\* C11 as stated: when complete() finalizes the bar and returns, every worker
\* started by run() has left its loop.
C11_NoWorkerOutlives ==
    [][CompleteReturns => \A w \in Started : wpc[w] = "done"]_vars

\* C11 amended: when complete() finalizes the bar and returns and none of
\* its joins timed out, every worker started by run() has left its loop; a
\* worker whose join timed out is left running.
C11_NoWorkerOutlivesUnlessTimeout ==
    [][(CompleteReturns /\ ~cur.timed_out) =>
            \A w \in Started : wpc[w] = "done"]_vars

C11_Witness ==
    /\ Completed
    /\ ~calls[1].timed_out
    /\ calls[1].joins = MAX_ALLOWED_THREADS
    /\ \A w \in Workers : wpc[w] = "done"
    /\ \A p \in Paths : outcomes[p] # <<>>

\* ---- C12 ----

\* C12 as stated: bar.finish() is invoked at most once, and exactly once when
\* a bar exists at the time complete() has returned.
C12_FinishOnce ==
    /\ finishes <= 1
    /\ (Completed /\ bar) => finishes = 1

\* ---- C15 ----

\* C15: once the stop event is set it stays set, and once the abort event
\* (_stop_winnowing) is set it stays set, whatever step is taken.
C15_FlagsMonotonic ==
    [][/\ stop_event => stop_event'
       /\ stop_winnowing => stop_winnowing']_vars

C15_Witness ==
    /\ stop_event
    /\ stop_winnowing
    /\ Len(calls) = 2
    /\ rejected
    /\ Late # {}

\* ---- C16 ----

\* C16: a step that rejects an empty path leaves the queue, the
\* outstanding-work counter, the error flag and both events unchanged; a
\* step that admits a path appends it at the tail of the queue, adds one to
\* the counter and leaves the flags unchanged.
C16_RejectedWithoutEffect ==
    [][/\ (~rejected /\ rejected') =>
            UNCHANGED <<inputs, unfinished_tasks, errors, stop_event,
                        stop_winnowing>>
       /\ (enq_at' # enq_at) =>
            /\ \E p \in Paths : /\ enq_at[p] = "no" /\ enq_at'[p] # "no"
                                /\ inputs' = Append(inputs, p)
            /\ unfinished_tasks' = unfinished_tasks + 1
            /\ UNCHANGED <<errors, stop_event, stop_winnowing>>]_vars

C16_Witness ==
    /\ rejected
    /\ Admitted = Paths
    /\ Completed
    /\ calls[1].ret
    /\ unfinished_tasks = 0

\* ---- C17 ----

\* C17 as stated: the abort event set implies the error flag set, and when
\* complete() returns the abort event is set if an accounted path failed.
C17_AbortSetAtReturn ==
    /\ [](stop_winnowing => errors)
    /\ [][(CompleteReturns /\ FailedAccounted # {}) => stop_winnowing]_vars

\* C17 amended: the abort event set implies the error flag set, and when
\* complete() returns without a join having timed out the abort event is set
\* if an accounted path failed.
C17_AbortSetAtReturnUnlessTimeout ==
    /\ [](stop_winnowing => errors)
    /\ [][(CompleteReturns /\ ~cur.timed_out /\ FailedAccounted # {}) =>
            stop_winnowing]_vars

C17_Witness ==
    /\ Completed
    /\ ~calls[1].timed_out
    /\ FailedAccounted # {}
    /\ stop_winnowing
    /\ errors

\* ---- C19 ----

Fingerprinted == {p \in Paths : HadOutcome(p, "wfp")}

\* C19: only paths with a non-empty fingerprint are stored; output holds one
\* entry per such path once its worker is past the put, and the counter
\* counts one per such path once its worker is past the write; a step that
\* gets an empty fingerprint changes neither output, counter nor flags and
\* leads to task_done().
C19_OnlyNonEmptyStored ==
    /\ [](/\ BagToSet(output) \subseteq Fingerprinted
          /\ BagCardinality(output) = Cardinality(Fingerprinted)
                - Cardinality({w \in Workers : wpc[w] = "put"})
          /\ bar_count = Cardinality(Fingerprinted)
                - Cardinality({w \in Workers : wpc[w] = "put" \/ BeforeStore(w)}))
    /\ [][\A w \in Workers :
            (wpc[w] = "winnow" /\ wpc'[w] # "winnow"
                /\ outcomes'[file[w]] = Append(outcomes[file[w]], "empty")) =>
                    /\ wpc'[w] = "task_done"
                    /\ UNCHANGED <<output, bar_count, errors, stop_winnowing,
                                   unfinished_tasks>>]_vars

C19_Witness ==
    /\ \E p, q \in Paths : outcomes[p] = <<"empty">> /\ outcomes[q] = <<"wfp">>
    /\ \A w \in Workers : wpc[w] = "done"
    /\ unfinished_tasks = 0
    /\ bar_count = 1
    /\ BagCardinality(output) = 1
    /\ ~errors /\ ~stop_winnowing

\* ---- C14 ----

\* the first complete() call is waiting, a positive thread count was requested
\* and every task was enqueued before run()
FirstCompleteOfPreTasks ==
    /\ requested >= 1
    /\ mpc = "c_join"
    /\ Len(calls) = 0
    /\ \A p \in Paths : enq_at[p] \in {"no", "pre"}

\* paths enqueued after run() sized the pool
AddedAfterRun == {p \in Paths : enq_at[p] \in {"live", "late"}}

\* C14: for any number of tasks enqueued before run() (and none after), the
\* first complete() call (made by run(wait=True) or by the caller) eventually
\* returns under fair scheduling when no fingerprint invocation hangs
C14_Terminates ==
    FirstCompleteOfPreTasks ~> (Len(calls) >= 1 \/ AddedAfterRun # {})

\* ---- C20 ----

\* run(wait=False) has returned for a positive requested thread count, and
\* complete() was not called yet
PoolRunning == requested >= 1 /\ mpc = "ready" /\ Len(calls) = 0

\* C20: a path admitted before complete() is called, with the pool started by
\* run(wait=False), is eventually dequeued and processed by a worker
C20_NotStranded ==
    \A p \in Paths : (PoolRunning /\ p \in Admitted) ~> (outcomes[p] # <<>>)

\* ---- C13 ----

\* the paths waiting in the queue
Queued == {inputs[i] : i \in DOMAIN inputs}

\* C13: the queue and the result sink belong to one coordinator: every task
\* waiting in the queue, every task a worker holds and every stored result
\* comes from a queue_add on the instance in use (so a fresh instance starts
\* with an empty queue and an empty sink)
C13_QueuesBelongToInstance ==
    /\ \A p \in Queued : enq_inst[p] = instance
    /\ \A w \in Workers : file[w] # None => enq_inst[file[w]] = instance
    /\ \A p \in BagToSet(output) : enq_inst[p] = instance

\* ---- C18 ----

\* C18: whenever nobody is inside update_bar and a bar made by the tracker
\* exists, its position equals the progress counter
C18_BarMatchesCounter ==
    (lock = None /\ bar /\ bar_made) => bar_index = bar_count

====
